---- MODULE Spec2Model ----
(***************************************************************************)
(* Model of the dungoxide dungeon generator: the configuration builder     *)
(* (src/src/dungeon.rs) and its two build strategies, BinaryPartition      *)
(* (src/src/binary_partition_builder.rs) and RoomPlacement                 *)
(* (src/src/room_placement_builder.rs).                                    *)
(*                                                                         *)
(* Every random draw of the code (rand::thread_rng) is a nondeterministic  *)
(* choice over the drawn range.  usize arithmetic is modelled with a word  *)
(* of UsizeBits bits: a subtraction that underflows panics when the build  *)
(* has overflow checks (debug profile) and wraps otherwise (release).  The *)
(* profile is fixed for a run; the model draws it at the first subtraction *)
(* that underflows, the first place where the run depends on it.           *)
(***************************************************************************)
EXTENDS Integers, Naturals, Sequences, FiniteSets, TLC

\* ------------------------------------------------------------------ bounds
MaxWidth == 5
MaxHeight == 5
MaxRoomSize == 2
\* one more room size, larger than the area of a dungeon in which a room fits;
\* drawn for RoomPlacement only
BigRoomSize == 17
\* largest width * height handed to each strategy
MaxBspArea == 17
MaxRpArea == 25
\* After a subtraction wrapped, partition_tree works on rectangles of the order
\* of the word size; the model follows such a run while the tree has fewer
\* nodes than this.
MaxWrappedTree == 2

\* usize is modelled as an 8 bit word (the real one has 64 bits); every size
\* and coordinate of the bounded model stays far below it.
UsizeBits == 8
UsizeMod == 2 ^ UsizeBits

\* ------------------------------------------------------------------ state
VARIABLES
    dungeon_config,    \* DungeonConfigBuilder.dungeon_config
    build_algorithm,   \* DungeonConfigBuilder.build_algorithm ("None" = Option::None)
    overflow_checks,   \* build profile: "on" = arithmetic overflow panics, "off" = it
                       \* wraps, "unobserved" = no overflow happened so far
    pc,                \* position of the build call
    result,            \* value returned by build ("Pending" while running)
    invoked,           \* TRUE once the selected strategy's build was called
    map,               \* the grid: map[y][x], rows 0..height-1
    rooms,             \* Vec<Room> of the running strategy
    attempt,           \* RoomPlacement: iterations of the placement loop done
    edges,             \* RoomPlacement: sorted edge list
    edge_idx,          \* RoomPlacement: position in the edge loops (1-based)
    union_find,        \* RoomPlacement: UnionFind {parent, rank, size}
    corridors,         \* RoomPlacement: Vec of MST room pairs
    extra_corridors,   \* RoomPlacement: drawn count of extra corridors (-1 = not drawn)
    added,             \* RoomPlacement: extra corridors carved so far
    tree,              \* BinaryPartition: arena of RoomsPartition nodes
    stack              \* BinaryPartition: pending nodes of the running recursion

vars == <<dungeon_config, build_algorithm, overflow_checks, pc, result, invoked,
          map, rooms, attempt, edges, edge_idx, union_find, corridors,
          extra_corridors, added, tree, stack>>

rpVars == <<attempt, edges, edge_idx, union_find, corridors, extra_corridors, added>>
bspVars == <<tree, stack>>
cfgVars == <<dungeon_config, build_algorithm, overflow_checks>>

\* ------------------------------------------------------------------ helpers
Min(a, b) == IF a <= b THEN a ELSE b
Max(a, b) == IF a >= b THEN a ELSE b

\* usize subtraction without overflow checks (wrapping)
WrappingSub(a, b) == (a - b) % UsizeMod
\* usize addition without overflow checks (wrapping)
WrappingAdd(a, b) == (a + b) % UsizeMod

NoUnionFind == [parent |-> <<>>, rank |-> <<>>, size |-> 0]

\* The grid allocated with width and height exchanged (a plausible slip).
NewMapMutant(w, h) ==
    [y \in 0..(w - 1) |-> [x \in 0..(h - 1) |-> "Wall"]]

\* vec![vec![TileType::Wall; width]; height]
NewMap(w, h) ==
    [y \in 0..(h - 1) |-> [x \in 0..(w - 1) |-> "Wall"]]

\* A node of the BinaryPartition tree lives in the arena `tree`; left and right
\* are arena indices, 0 for Option::None; room is <<>> for None, <<r>> for Some(r).
\* The Room struct of binary_partition_builder.rs.
Rect(x, y, w, h) == [x |-> x, y |-> y, width |-> w, height |-> h]

\* RoomsPartition::new
RoomsPartitionNew(root_room) ==
    [root_room |-> root_room, room |-> <<>>, left |-> 0, right |-> 0]

\* ------------------------------------------------------------ configuration
\* DungeonSize::validate
DungeonSizeValidate(size) ==
    IF size.width = 0 \/ size.height = 0 THEN "InvalidSize" ELSE "Ok"

\* RoomSize::validate
RoomSizeValidate(room_size) ==
    IF room_size.min_room_size = 0 \/ room_size.max_room_size = 0
    THEN "InvalidRoomSize"
    ELSE IF room_size.min_room_size > room_size.max_room_size
         THEN "InvalidRoomSize"
         ELSE "Ok"

\* DungeonSize::validate_room_size
ValidateRoomSize(size, room_size) ==
    IF room_size.min_room_size > size.width \/ room_size.min_room_size > size.height
    THEN "RoomTooLargeForDungeon"
    ELSE "Ok"

\* The checks of DungeonConfigBuilder::build in reverse order (a plausible
\* slip: cross validation before the simple ones).
ValidationMutant(alg, cfg) ==
    IF ValidateRoomSize(cfg.dungeon_size, cfg.room_size) # "Ok"
    THEN ValidateRoomSize(cfg.dungeon_size, cfg.room_size)
    ELSE IF RoomSizeValidate(cfg.room_size) # "Ok"
    THEN RoomSizeValidate(cfg.room_size)
    ELSE IF DungeonSizeValidate(cfg.dungeon_size) # "Ok"
    THEN DungeonSizeValidate(cfg.dungeon_size)
    ELSE IF alg = "None" THEN "NoBuildAlgorithmProvided" ELSE "Ok"

\* The `?` chain of DungeonConfigBuilder::build: the first failing check returns.
Validation(alg, cfg) ==
    IF alg = "None" THEN "NoBuildAlgorithmProvided"
    ELSE IF DungeonSizeValidate(cfg.dungeon_size) # "Ok"
    THEN DungeonSizeValidate(cfg.dungeon_size)
    ELSE IF RoomSizeValidate(cfg.room_size) # "Ok"
    THEN RoomSizeValidate(cfg.room_size)
    ELSE ValidateRoomSize(cfg.dungeon_size, cfg.room_size)

RoomSizes == (0..MaxRoomSize) \cup {BigRoomSize}

Configs ==
    [dungeon_size : [width : 0..MaxWidth, height : 0..MaxHeight],
     room_size : [min_room_size : RoomSizes, max_room_size : RoomSizes],
     should_place_doors : BOOLEAN]

Algorithms == {"None", "BinaryPartition", "RoomPlacement"}

\* The settings are within the model's bounds for the strategy.
WithinBounds(alg, cfg) ==
    LET area == cfg.dungeon_size.width * cfg.dungeon_size.height IN
    /\ alg = "BinaryPartition" =>
          /\ area <= MaxBspArea
          /\ cfg.room_size.min_room_size <= MaxRoomSize
          /\ cfg.room_size.max_room_size <= MaxRoomSize
    /\ alg = "RoomPlacement" => area <= MaxRpArea

\* The build profiles the run may still turn out to have.
Profiles ==
    IF overflow_checks = "unobserved" THEN {"on", "off"} ELSE {overflow_checks}

width == dungeon_config.dungeon_size.width
height == dungeon_config.dungeon_size.height
room_min_size == dungeon_config.room_size.min_room_size
room_max_size == dungeon_config.room_size.max_room_size

\* The locals of a build call before any of them is assigned.
NoLocals ==
    /\ map = <<>>
    /\ rooms = <<>>
    /\ attempt = 0
    /\ edges = <<>>
    /\ edge_idx = 0
    /\ union_find = NoUnionFind
    /\ corridors = <<>>
    /\ extra_corridors = -1
    /\ added = 0
    /\ tree = <<>>
    /\ stack = <<>>

\* The builder after its setters ran (dungeon_size, room_size, build_algorithm,
\* should_place_doors), just before build().
Init ==
    /\ dungeon_config \in Configs
    /\ build_algorithm \in Algorithms
    /\ WithinBounds(build_algorithm, dungeon_config)
    /\ overflow_checks = "unobserved"
    /\ pc = "build"
    /\ result = "Pending"
    /\ invoked = FALSE
    /\ NoLocals

\* DungeonConfigBuilder::build, up to the call of the strategy.
Build ==
    /\ pc = "build"
    /\ LET v == Validation(build_algorithm, dungeon_config) IN
       IF v # "Ok"
       THEN /\ result' = v
            /\ pc' = "done"
            /\ UNCHANGED <<invoked, map, bspVars>>
       ELSE /\ invoked' = TRUE
            /\ map' = NewMap(width, height)
            /\ IF build_algorithm = "BinaryPartition"
               THEN /\ tree' = <<RoomsPartitionNew(Rect(0, 0, width, height))>>
                    /\ stack' = <<1>>
               ELSE UNCHANGED bspVars
            /\ pc' = IF build_algorithm = "BinaryPartition"
                     THEN "bsp_partition" ELSE "rp_place"
            /\ UNCHANGED result
    /\ UNCHANGED <<cfgVars, rooms, rpVars>>

\* ------------------------------------------------------------ door placement
\* The neighbour count taking every cell that is not Wall (a plausible slip:
\* `!= Wall` for `== Floor`), so that doors placed earlier in the scan count.
FloorCountMutant(m, x, y) ==
    Cardinality({c \in {<<x, y - 1>>, <<x, y + 1>>, <<x - 1, y>>, <<x + 1, y>>} :
                    m[c[2]][c[1]] # "Wall"})

\* Number of Floor cells among the four orthogonal neighbours of (x, y).
FloorCount(m, x, y) ==
    Cardinality({c \in {<<x, y - 1>>, <<x, y + 1>>, <<x - 1, y>>, <<x + 1, y>>} :
                    m[c[2]][c[1]] = "Floor"})

\* The scan of place_doors from cell (x, y) on, row by row, rewriting the
\* grid in place: later cells see the doors already placed.
RECURSIVE DoorScan(_, _, _)
DoorScan(m, x, y) ==
    LET h == Cardinality(DOMAIN m)
        w == Cardinality(DOMAIN m[0])
    IN IF y >= h - 1 THEN m
       ELSE IF x >= w - 1 THEN DoorScan(m, 1, y + 1)
       ELSE IF m[y][x] = "Wall" /\ FloorCount(m, x, y) >= 2
            THEN DoorScan([m EXCEPT ![y][x] = "Door"], x + 1, y)
            ELSE DoorScan(m, x + 1, y)

\* place_doors (the two strategies carry the same function)
PlaceDoors(m) == DoorScan(m, 1, 1)

\* ------------------------------------------------------------ RoomPlacement
\* let max_rooms = (width * height) / (room_min_size * room_max_size)
max_rooms == (width * height) \div (room_min_size * room_max_size)

\* Room::new
RoomNew(x, y, w, h) ==
    [x |-> x, y |-> y, width |-> w, height |-> h,
     center_x |-> WrappingAdd(x, w \div 2),
     center_y |-> WrappingAdd(y, h \div 2)]

\* Room::intersects testing only whether the corner (x, y) of self lies in
\* other (a plausible slip: a point test instead of an interval test).
IntersectsMutant(self, other) ==
    /\ self.x < WrappingAdd(other.x, other.width)
    /\ self.x >= other.x
    /\ self.y < WrappingAdd(other.y, other.height)
    /\ self.y >= other.y

\* Room::intersects
Intersects(self, other) ==
    /\ self.x < WrappingAdd(other.x, other.width)
    /\ WrappingAdd(self.x, self.width) > other.x
    /\ self.y < WrappingAdd(other.y, other.height)
    /\ WrappingAdd(self.y, self.height) > other.y

\* The cells (column, row) visited by the carving loops
\* for i in x..(x + width) { for j in y..(y + height) {..} }
RoomCells(r) ==
    {<<i, j>> : i \in r.x..(WrappingAdd(r.x, r.width) - 1),
                j \in r.y..(WrappingAdd(r.y, r.height) - 1)}

\* map[j][i] is a valid index
InMap(m, c) == c[2] \in DOMAIN m /\ c[1] \in DOMAIN m[c[2]]

\* map[j][i] = TileType::Floor over a set of cells
Carve(m, cells) ==
    [y \in DOMAIN m |->
        [x \in DOMAIN m[y] |-> IF <<x, y>> \in cells THEN "Floor" ELSE m[y][x]]]

\* An outcome of a step with random draws: what happened, the room or the
\* rectangles it made, and whether a subtraction underflowed on the way.
Outcome(kind, made, underflow) == [kind |-> kind, made |-> made, underflow |-> underflow]

\* Lines 34-43 for a drawn candidate: overlap test, then carving.
PlaceAt(next_room, underflow) ==
    IF \E r \in {rooms[k] : k \in DOMAIN rooms} : Intersects(next_room, r)
    THEN Outcome("skip", <<>>, underflow)
    ELSE IF \E c \in RoomCells(next_room) : ~InMap(map, c)
         THEN Outcome("panic", <<>>, underflow)         \* index out of bounds
         ELSE Outcome("room", <<next_room>>, underflow)

\* The fit test against the dimension itself instead of the dimension less
\* the two margin cells (a plausible slip).
TooLargeMutant(size, limit) == size >= WrappingAdd(limit, 2)

\* The fit test of line 27 for one axis; limit is the dimension - 2.
TooLarge(size, limit) == size >= limit

\* One iteration of the placement loop for drawn sizes w and h under a build
\* with (checks) or without overflow checks: the set of its possible outcomes
\* over the draws of x and y.
PlacementOutcomes(w, h, checks) ==
    LET u1 == width < 2
        u2 == u1 \/ height < 2
        u3 == u2 \/ width < w \/ WrappingSub(width, w) < 1
        u4 == u3 \/ height < h \/ WrappingSub(height, h) < 1
        x_end == WrappingSub(WrappingSub(width, w), 1)
        y_end == WrappingSub(WrappingSub(height, h), 1)
    IN IF checks /\ u1 THEN {Outcome("panic", <<>>, TRUE)}
       ELSE IF TooLarge(w, WrappingSub(width, 2)) THEN {Outcome("skip", <<>>, u1)}
       ELSE IF checks /\ u2 THEN {Outcome("panic", <<>>, TRUE)}
       ELSE IF TooLarge(h, WrappingSub(height, 2)) THEN {Outcome("skip", <<>>, u2)}
       ELSE IF checks /\ u3 THEN {Outcome("panic", <<>>, TRUE)}
       ELSE IF 1 >= x_end THEN {Outcome("panic", <<>>, u3)}   \* gen_range on an empty range
       ELSE IF checks /\ u4 THEN {Outcome("panic", <<>>, TRUE)}
       ELSE IF 1 >= y_end THEN {Outcome("panic", <<>>, u4)}
       ELSE {PlaceAt(RoomNew(x, y, w, h), u4) :
                 x \in 1..(x_end - 1), y \in 1..(y_end - 1)}

\* One iteration of `for _ in 0..max_rooms`.
PlaceRoom ==
    /\ pc = "rp_place"
    /\ attempt < max_rooms
    /\ \E next_room_w \in room_min_size..room_max_size,
          next_room_h \in room_min_size..room_max_size,
          profile \in Profiles :
         \E o \in PlacementOutcomes(next_room_w, next_room_h, profile = "on") :
            /\ overflow_checks' = IF o.underflow THEN profile ELSE overflow_checks
            /\ CASE o.kind = "panic" ->
                    /\ result' = "Panic"
                    /\ pc' = "done"
                    /\ map' = <<>>
                    /\ rooms' = <<>>
                    /\ attempt' = 0
               [] o.kind = "skip" ->
                    /\ attempt' = attempt + 1
                    /\ UNCHANGED <<result, pc, map, rooms>>
               [] o.kind = "room" ->
                    /\ map' = Carve(map, RoomCells(o.made[1]))
                    /\ rooms' = Append(rooms, o.made[1])
                    /\ attempt' = attempt + 1
                    /\ UNCHANGED <<result, pc>>
    /\ UNCHANGED <<dungeon_config, build_algorithm, invoked, edges, edge_idx,
                   union_find, corridors, extra_corridors, added, bspVars>>

\* The pairs (i, j), i < j, in the order of the two nested loops of lines
\* 52-53.  Rooms are numbered from 1 here (from 0 in the code).
RECURSIVE PairsFrom(_, _, _)
PairsFrom(i, j, n) ==
    IF i > n THEN <<>>
    ELSE IF j > n THEN PairsFrom(i + 1, i + 2, n)
    ELSE <<<<i, j>>>> \o PairsFrom(i, j + 1, n)

\* The weight of edge (i, j).  The code stores the f64 square root of this
\* integer and compares edges by it; on the model's small integers the square
\* root is exact up to rounding and strictly increasing, so comparing the
\* squares is comparing the roots.
DistanceSq(rs, i, j) ==
    (rs[i].center_x - rs[j].center_x) * (rs[i].center_x - rs[j].center_x)
  + (rs[i].center_y - rs[j].center_y) * (rs[i].center_y - rs[j].center_y)

\* The edge list of lines 50-60, unsorted.
EdgeList(rs) ==
    LET ps == PairsFrom(1, 2, Len(rs)) IN
    [k \in 1..Len(ps) |->
        [i |-> ps[k][1], j |-> ps[k][2], distance |-> DistanceSq(rs, ps[k][1], ps[k][2])]]

\* Insert e after every element that is not greater (keeps equal weights in
\* their original order).
RECURSIVE InsertStable(_, _)
InsertStable(sorted, e) ==
    IF sorted = <<>> THEN <<e>>
    ELSE IF sorted[Len(sorted)].distance <= e.distance THEN Append(sorted, e)
    ELSE Append(InsertStable(SubSeq(sorted, 1, Len(sorted) - 1), e), sorted[Len(sorted)])

\* The edge list left in the order of the nested loops (a plausible slip: the
\* sort dropped).
SortByMutant(es) == es

\* edges.sort_by(|a, b| a.1.partial_cmp(&b.1).unwrap()): a stable sort.
RECURSIVE SortBy(_)
SortBy(es) ==
    IF es = <<>> THEN <<>>
    ELSE InsertStable(SortBy(SubSeq(es, 1, Len(es) - 1)), es[Len(es)])

\* UnionFind::new
UnionFindNew(size) ==
    [parent |-> [k \in 1..size |-> k], rank |-> [k \in 1..size |-> 0], size |-> size]

\* UnionFind::find: the root of x and the parent vector after path compression.
RECURSIVE Find(_, _)
Find(parent, x) ==
    IF parent[x] # x
    THEN LET r == Find(parent, parent[x]) IN
         [root |-> r.root, parent |-> [r.parent EXCEPT ![x] = r.root]]
    ELSE [root |-> x, parent |-> parent]

\* UnionFind::union
Union(uf, x, y) ==
    LET fx == Find(uf.parent, x)
        fy == Find(fx.parent, y)
        xroot == fx.root
        yroot == fy.root
        p == fy.parent
    IN IF xroot # yroot
       THEN IF uf.rank[xroot] < uf.rank[yroot]
            THEN [parent |-> [p EXCEPT ![xroot] = yroot],
                  rank |-> uf.rank, size |-> uf.size - 1]
            ELSE IF uf.rank[xroot] > uf.rank[yroot]
            THEN [parent |-> [p EXCEPT ![yroot] = xroot],
                  rank |-> uf.rank, size |-> uf.size - 1]
            ELSE [parent |-> [p EXCEPT ![yroot] = xroot],
                  rank |-> [uf.rank EXCEPT ![xroot] = @ + 1],
                  size |-> uf.size - 1]
       ELSE [uf EXCEPT !.parent = p]

\* UnionFind::count
Count(uf) == uf.size

\* The cells of the L-shaped corridor between (x1, y1) and (x2, y2);
\* horizontal_first is the outcome of gen_bool(0.5).
CorridorCells(x1, y1, x2, y2, horizontal_first) ==
    IF horizontal_first
    THEN {<<x, y1>> : x \in Min(x1, x2)..Max(x1, x2)}
         \cup {<<x2, y>> : y \in Min(y1, y2)..Max(y1, y2)}
    ELSE {<<x1, y>> : y \in Min(y1, y2)..Max(y1, y2)}
         \cup {<<x, y2>> : x \in Min(x1, x2)..Max(x1, x2)}

\* create_corridor
CreateCorridor(m, room1, room2, horizontal_first) ==
    Carve(m, CorridorCells(room1.center_x, room1.center_y,
                           room2.center_x, room2.center_y, horizontal_first))

\* Lines 46-66: the end of the placement loop, the NoRoomsCreated return, the
\* edge list, its sort and the fresh union-find.
BuildEdges ==
    /\ pc = "rp_place"
    /\ attempt >= max_rooms
    /\ IF rooms = <<>>
       THEN /\ result' = "NoRoomsCreated"
            /\ pc' = "done"
            /\ map' = <<>>
            /\ attempt' = 0
            /\ UNCHANGED <<edges, edge_idx, union_find>>
       ELSE /\ edges' = SortBy(EdgeList(rooms))
            /\ union_find' = UnionFindNew(Len(rooms))
            /\ edge_idx' = 1
            /\ pc' = "rp_kruskal"
            /\ UNCHANGED <<result, map, attempt>>
    /\ UNCHANGED <<cfgVars, invoked, rooms, corridors, extra_corridors, added, bspVars>>

\* One iteration of the Kruskal loop (lines 68-79).
KruskalStep ==
    /\ pc = "rp_kruskal"
    /\ edge_idx <= Len(edges)
    /\ LET e == edges[edge_idx]
           fi == Find(union_find.parent, e.i)
           fj == Find(fi.parent, e.j)
       IN IF fi.root # fj.root
          THEN \E horizontal_first \in BOOLEAN :
                LET uf == Union([union_find EXCEPT !.parent = fj.parent], e.i, e.j) IN
                /\ union_find' = uf
                /\ map' = CreateCorridor(map, rooms[e.i], rooms[e.j], horizontal_first)
                /\ corridors' = Append(corridors, <<e.i, e.j>>)
                /\ edge_idx' = IF Count(uf) = 1 THEN Len(edges) + 1 ELSE edge_idx + 1
          ELSE /\ union_find' = [union_find EXCEPT !.parent = fj.parent]
               /\ edge_idx' = edge_idx + 1
               /\ UNCHANGED <<map, corridors>>
    /\ UNCHANGED <<cfgVars, pc, result, invoked, rooms, attempt, edges,
                   extra_corridors, added, bspVars>>

\* let extra_corridors = rng.gen_range(0..2); let mut added = 0;
DrawExtraCorridors ==
    /\ pc = "rp_kruskal"
    /\ edge_idx > Len(edges)
    /\ \E n \in 0..1 : extra_corridors' = n
    /\ added' = 0
    /\ edge_idx' = 1
    /\ pc' = "rp_extra"
    /\ UNCHANGED <<cfgVars, result, invoked, map, rooms, attempt, edges,
                   union_find, corridors, bspVars>>

\* corridors.contains(&(i, j)) || corridors.contains(&(j, i))
InCorridors(cs, i, j) ==
    \E k \in DOMAIN cs : cs[k] = <<i, j>> \/ cs[k] = <<j, i>>

\* One iteration of the extra-corridor loop (lines 83-91).
ExtraCorridorStep ==
    /\ pc = "rp_extra"
    /\ edge_idx <= Len(edges)
    /\ LET e == edges[edge_idx] IN
       IF ~InCorridors(corridors, e.i, e.j)
       THEN \E horizontal_first \in BOOLEAN :
             /\ map' = CreateCorridor(map, rooms[e.i], rooms[e.j], horizontal_first)
             /\ added' = added + 1
             /\ edge_idx' = IF added + 1 >= extra_corridors
                            THEN Len(edges) + 1 ELSE edge_idx + 1
       ELSE /\ edge_idx' = edge_idx + 1
            /\ UNCHANGED <<map, added>>
    /\ UNCHANGED <<cfgVars, pc, result, invoked, rooms, attempt, edges,
                   union_find, corridors, extra_corridors, bspVars>>

\* The door pass of RoomPlacementBuilder::build applied whatever the flag says
\* (a plausible slip: the `if` dropped).
RoomPlacementDoorsMutant(m) == PlaceDoors(m)

\* if build_config.should_place_doors { place_doors(&mut map); }
RoomPlacementDoors(m) ==
    IF dungeon_config.should_place_doors THEN PlaceDoors(m) ELSE m

\* Lines 93-98: the door pass and Ok(Dungeon { map }).
RoomPlacementReturn ==
    /\ pc = "rp_extra"
    /\ edge_idx > Len(edges)
    /\ map' = RoomPlacementDoors(map)
    /\ result' = "Ok"
    /\ pc' = "done"
    /\ UNCHANGED <<cfgVars, invoked, rooms, rpVars, bspVars>>

\* ---------------------------------------------------------- BinaryPartition
\* Room::center
Center(r) == <<r.x + r.width \div 2, r.y + r.height \div 2>>

\* Lines 93-99 of split: the orientation; coin is the outcome of gen_bool(0.5).
ShouldSplitHorizontally(root_room, coin) ==
    IF root_room.width >= root_room.height THEN FALSE
    ELSE IF root_room.height >= root_room.width THEN TRUE
    ELSE coin

\* The two children of split for a drawn offset, the right child starting one
\* cell late (a plausible off-by-one).
SplitChildrenMutant(r, horizontally, split) ==
    IF horizontally
    THEN <<Rect(r.x, r.y, r.width, split),
           Rect(r.x, r.y + split + 1, r.width, WrappingSub(r.height, split))>>
    ELSE <<Rect(r.x, r.y, split, r.height),
           Rect(r.x + split + 1, r.y, WrappingSub(r.width, split), r.height)>>

\* The two children of split for a drawn offset (lines 113-147).
SplitChildren(r, horizontally, split) ==
    IF horizontally
    THEN <<Rect(r.x, r.y, r.width, split),
           Rect(r.x, r.y + split, r.width, WrappingSub(r.height, split))>>
    ELSE <<Rect(r.x, r.y, split, r.height),
           Rect(r.x + split, r.y, WrappingSub(r.width, split), r.height)>>

\* RoomsPartition::split on a node without children, under a build with
\* (checks) or without overflow checks: the set of its outcomes over the random
\* draws.  "leaf" is the `return false`.
SplitOutcomes(r, min_size, checks) ==
    UNION {
      LET horizontally == ShouldSplitHorizontally(r, coin)
          dim == IF horizontally THEN r.height ELSE r.width
          u1 == dim < min_size
          max_size == WrappingSub(dim, min_size)
      IN IF checks /\ u1 THEN {Outcome("panic", <<>>, TRUE)}
         ELSE IF max_size <= min_size THEN {Outcome("leaf", <<>>, u1)}
         ELSE {IF checks /\ dim < split
               THEN Outcome("panic", <<>>, TRUE)
               ELSE Outcome("split", SplitChildren(r, horizontally, split),
                            u1 \/ dim < split) :
                   split \in min_size..(max_size - 1)}
      : coin \in BOOLEAN }

\* One call of partition_tree: the node on top of the stack.  The recursive
\* calls on left and right are pushed, left on top.
PartitionTree ==
    /\ pc = "bsp_partition"
    /\ stack # <<>>
    /\ overflow_checks = "off" => Len(tree) < MaxWrappedTree
    /\ LET n == Head(stack)
           r == tree[n].root_room
           must == r.width > room_max_size \/ r.height > room_max_size
       IN \E can_split \in (IF must THEN {TRUE} ELSE BOOLEAN) :
            IF ~can_split
            THEN /\ stack' = Tail(stack)
                 /\ UNCHANGED <<tree, result, pc, map, overflow_checks>>
            ELSE \E profile \in Profiles :
                 \E o \in SplitOutcomes(r, room_min_size, profile = "on") :
                   /\ overflow_checks' = IF o.underflow THEN profile ELSE overflow_checks
                   /\ CASE o.kind = "panic" ->
                          /\ result' = "Panic"
                          /\ pc' = "done"
                          /\ map' = <<>>
                          /\ tree' = <<>>
                          /\ stack' = <<>>
                     [] o.kind = "leaf" ->
                          /\ stack' = Tail(stack)
                          /\ UNCHANGED <<tree, result, pc, map>>
                     [] o.kind = "split" ->
                          /\ tree' = [tree EXCEPT ![n].left = Len(tree) + 1,
                                                  ![n].right = Len(tree) + 2]
                                     \o <<RoomsPartitionNew(o.made[1]),
                                          RoomsPartitionNew(o.made[2])>>
                          /\ stack' = <<Len(tree) + 1, Len(tree) + 2>> \o Tail(stack)
                          /\ UNCHANGED <<result, pc, map>>
    /\ UNCHANGED <<dungeon_config, build_algorithm, invoked, rooms, rpVars>>

\* BinaryPartitionBuilder::build, lines 27-28: partition_tree has returned,
\* create_rooms is called on the root.
StartCreateRooms ==
    /\ pc = "bsp_partition"
    /\ stack = <<>>
    /\ pc' = "bsp_rooms"
    /\ stack' = <<1>>
    /\ UNCHANGED <<cfgVars, result, invoked, map, rooms, rpVars, tree>>

\* The room of a leaf with the `- 1` of w_max and h_max forgotten (a plausible
\* off-by-one).
LeafRoomsMutant(r, min_size, max_size) ==
    LET w_max == Min(r.width, max_size)
        h_max == Min(r.height, max_size)
    IN IF min_size > w_max \/ min_size > h_max THEN {<<>>}
       ELSE UNION {
              {<<Rect(room_x, room_y, room_w, room_h)>> :
                  room_x \in r.x..(r.x + r.width - room_w),
                  room_y \in r.y..(r.y + r.height - room_h)}
              : room_w \in min_size..w_max, room_h \in min_size..h_max }

\* The room of a leaf, lines 175-206 of create_rooms: the set of outcomes over
\* the draws; <<>> is a return without a room.
LeafRooms(r, min_size, max_size) ==
    LET w_max == Min(WrappingSub(r.width, 1), max_size)
        h_max == Min(WrappingSub(r.height, 1), max_size)
    IN IF min_size > w_max \/ min_size > h_max THEN {<<>>}
       ELSE UNION {
              IF room_w > r.x + r.width \/ room_h > r.y + r.height THEN {<<>>}
              ELSE {<<Rect(room_x, room_y, room_w, room_h)>> :
                       room_x \in r.x..(r.x + r.width - room_w),
                       room_y \in r.y..(r.y + r.height - room_h)}
              : room_w \in min_size..w_max, room_h \in min_size..h_max }

\* One call of create_rooms: the node on top of the stack.
CreateRooms ==
    /\ pc = "bsp_rooms"
    /\ stack # <<>>
    /\ LET n == Head(stack) IN
       IF tree[n].left = 0 /\ tree[n].right = 0
       THEN \E room \in LeafRooms(tree[n].root_room, room_min_size, room_max_size) :
              /\ tree' = [tree EXCEPT ![n].room = room]
              /\ rooms' = rooms \o room
              /\ stack' = Tail(stack)
       ELSE /\ stack' = <<tree[n].left, tree[n].right>> \o Tail(stack)
            /\ UNCHANGED <<tree, rooms>>
    /\ UNCHANGED <<cfgVars, pc, result, invoked, map, rpVars>>

\* The inner nodes below n in the order connect_rooms reaches their own
\* corridor: left subtree, right subtree, then the node.
RECURSIVE ConnectOrder(_, _)
ConnectOrder(t, n) ==
    IF t[n].left = 0 THEN <<>>
    ELSE ConnectOrder(t, t[n].left) \o ConnectOrder(t, t[n].right) \o <<n>>

RectCells(r) ==
    {<<i, j>> : i \in r.x..(r.x + r.width - 1), j \in r.y..(r.y + r.height - 1)}

\* Lines 30-42 of build: the NoRoomsCreated return, the carving of the rooms,
\* and the call of connect_rooms on the root.
CarveRooms ==
    /\ pc = "bsp_rooms"
    /\ stack = <<>>
    /\ IF rooms = <<>>
       THEN /\ result' = "NoRoomsCreated"
            /\ pc' = "done"
            /\ map' = <<>>
            /\ tree' = <<>>
            /\ UNCHANGED stack
       ELSE /\ map' = Carve(map, UNION {RectCells(rooms[k]) : k \in DOMAIN rooms})
            /\ pc' = "bsp_connect"
            /\ stack' = ConnectOrder(tree, 1)
            /\ UNCHANGED <<result, tree>>
    /\ UNCHANGED <<cfgVars, invoked, rooms, rpVars>>

\* get_room_center looking at the node's own room only (a plausible slip: no
\* descent into the subtree).
GetRoomCenterMutant(t, n) ==
    IF t[n].room # <<>> THEN <<Center(t[n].room[1])>> ELSE <<>>

\* RoomsPartition::get_room_center: <<>> for None, <<c>> for Some(c).
RECURSIVE GetRoomCenter(_, _)
GetRoomCenter(t, n) ==
    IF t[n].room # <<>> THEN <<Center(t[n].room[1])>>
    ELSE LET l == IF t[n].left # 0 THEN GetRoomCenter(t, t[n].left) ELSE <<>> IN
         IF l # <<>> THEN l
         ELSE IF t[n].right # 0 THEN GetRoomCenter(t, t[n].right) ELSE <<>>

\* apply_corridors: only Wall cells are turned into Floor.
ApplyCorridors(m, x1, y1, x2, y2, horizontal_first) ==
    LET cells == CorridorCells(x1, y1, x2, y2, horizontal_first) IN
    [y \in DOMAIN m |->
        [x \in DOMAIN m[y] |->
            IF <<x, y>> \in cells /\ m[y][x] = "Wall" THEN "Floor" ELSE m[y][x]]]

\* The corridor step of connect_rooms (lines 229-236) for the next inner node.
ConnectRooms ==
    /\ pc = "bsp_connect"
    /\ stack # <<>>
    /\ LET n == Head(stack)
           left_center == GetRoomCenter(tree, tree[n].left)
           right_center == GetRoomCenter(tree, tree[n].right)
       IN IF left_center # <<>> /\ right_center # <<>>
          THEN \E horizontal_first \in BOOLEAN :
                 map' = ApplyCorridors(map, left_center[1][1], left_center[1][2],
                                       right_center[1][1], right_center[1][2],
                                       horizontal_first)
          ELSE UNCHANGED map
    /\ stack' = Tail(stack)
    /\ UNCHANGED <<cfgVars, pc, result, invoked, rooms, rpVars, tree>>

\* if build_config.should_place_doors { place_doors(&mut map); }
BinaryPartitionDoors(m) ==
    IF dungeon_config.should_place_doors THEN PlaceDoors(m) ELSE m

\* Lines 44-48 of build: the door pass and Ok(Dungeon { map }).
BinaryPartitionReturn ==
    /\ pc = "bsp_connect"
    /\ stack = <<>>
    /\ map' = BinaryPartitionDoors(map)
    /\ result' = "Ok"
    /\ pc' = "done"
    /\ UNCHANGED <<cfgVars, invoked, rooms, rpVars, bspVars>>

\* ------------------------------------------------------------ specification
Next ==
    \/ Build
    \/ PlaceRoom
    \/ BuildEdges
    \/ KruskalStep
    \/ DrawExtraCorridors
    \/ ExtraCorridorStep
    \/ RoomPlacementReturn
    \/ PartitionTree
    \/ StartCreateRooms
    \/ CreateRooms
    \/ CarveRooms
    \/ ConnectRooms
    \/ BinaryPartitionReturn

Spec == Init /\ [][Next]_vars

\* BinaryPartitionBuilder::build called directly (the strategy and the
\* configuration record are public), without the builder's validation: the
\* state after lines 12-23, for every configuration with positive sizes.
DirectConfigs ==
    [dungeon_size : [width : 1..MaxWidth, height : 1..MaxHeight],
     room_size : [min_room_size : 1..(MaxRoomSize + 1),
                  max_room_size : 1..(MaxRoomSize + 1)],
     should_place_doors : BOOLEAN]

InitDirect ==
    /\ dungeon_config \in DirectConfigs
    /\ width * height <= MaxBspArea
    /\ build_algorithm = "BinaryPartition"
    /\ overflow_checks = "unobserved"
    /\ pc = "bsp_partition"
    /\ result = "Pending"
    /\ invoked = TRUE
    /\ map = NewMap(width, height)
    /\ rooms = <<>>
    /\ attempt = 0
    /\ edges = <<>>
    /\ edge_idx = 0
    /\ union_find = NoUnionFind
    /\ corridors = <<>>
    /\ extra_corridors = -1
    /\ added = 0
    /\ tree = <<RoomsPartitionNew(Rect(0, 0, width, height))>>
    /\ stack = <<1>>

NextDirect ==
    \/ PartitionTree
    \/ StartCreateRooms
    \/ CreateRooms
    \/ CarveRooms
    \/ ConnectRooms
    \/ BinaryPartitionReturn

SpecDirect == InitDirect /\ [][NextDirect]_vars

TypeOK ==
    /\ pc \in {"build", "rp_place", "rp_kruskal", "rp_extra", "bsp_partition",
               "bsp_rooms", "bsp_connect", "done"}
    /\ result \in {"Pending", "Ok", "Panic", "NoBuildAlgorithmProvided", "InvalidSize",
                   "InvalidRoomSize", "RoomTooLargeForDungeon", "NoRoomsCreated"}
    /\ overflow_checks \in {"unobserved", "on", "off"}
    /\ \A n \in DOMAIN tree :
          tree[n].root_room.width >= 1 /\ tree[n].root_room.height >= 1

\* ------------------------------------------------------------------ claims
Validated == invoked
Returned == pc = "done"
IsBsp == build_algorithm = "BinaryPartition"
IsRp == build_algorithm = "RoomPlacement"

\* The cells (column, row) of the grid holding one of the given tiles.
CellsOf(m, tiles) ==
    {c \in UNION {{<<x, y>> : x \in DOMAIN m[y]} : y \in DOMAIN m} : m[c[2]][c[1]] \in tiles}

Neighbours(c) ==
    {<<c[1] - 1, c[2]>>, <<c[1] + 1, c[2]>>, <<c[1], c[2] - 1>>, <<c[1], c[2] + 1>>}

\* The cells of `open` reachable from `seen` by steps between 4-neighbours.
RECURSIVE Flood(_, _)
Flood(open, seen) ==
    LET more == (UNION {Neighbours(c) : c \in seen} \cap open) \ seen IN
    IF more = {} THEN seen ELSE Flood(open, seen \cup more)

AllRoomCells == UNION {RectCells(rooms[k]) : k \in DOMAIN rooms}

\* C1: build reports the first failing check in the order no strategy, size,
\* room size, room against dungeon, and calls the strategy iff all four pass.
C1_ValidationOrder ==
    LET no_strategy == build_algorithm = "None"
        bad_size == width = 0 \/ height = 0
        bad_room == room_min_size = 0 \/ room_max_size = 0
                    \/ room_min_size > room_max_size
        too_large == room_min_size > width \/ room_min_size > height
    IN pc # "build" =>
         /\ no_strategy => result = "NoBuildAlgorithmProvided"
         /\ ~no_strategy /\ bad_size => result = "InvalidSize"
         /\ ~no_strategy /\ ~bad_size /\ bad_room => result = "InvalidRoomSize"
         /\ ~no_strategy /\ ~bad_size /\ ~bad_room /\ too_large
               => result = "RoomTooLargeForDungeon"
         /\ invoked <=> ~(no_strategy \/ bad_size \/ bad_room \/ too_large)

\* A build that failed the size check although the room sizes are invalid too.
C1_Witness ==
    /\ Returned /\ result = "InvalidSize"
    /\ room_min_size > room_max_size
    /\ build_algorithm = "RoomPlacement"

\* C2: in every returned grid all Floor cells, among them every cell of every
\* room, lie in one 4-neighbour connected component of Floor and Door cells.
C2_Connected ==
    (Returned /\ result = "Ok") =>
        LET floor == CellsOf(map, {"Floor"})
            start == CHOOSE c \in floor : TRUE
            comp == Flood(CellsOf(map, {"Floor", "Door"}), {start})
        IN /\ AllRoomCells # {}
           /\ AllRoomCells \subseteq floor
           /\ floor \subseteq comp

\* A returned grid with doors and at least three rooms.
C2_Witness ==
    /\ Returned /\ result = "Ok"
    /\ Len(rooms) >= 3
    /\ CellsOf(map, {"Door"}) # {}

\* C3: a returned grid has height rows of width columns.
C3_GridSize ==
    (Returned /\ result = "Ok") =>
        /\ DOMAIN map = 0..(height - 1)
        /\ \A y \in DOMAIN map : DOMAIN map[y] = 0..(width - 1)

\* A returned grid that is not square.
C3_Witness ==
    Returned /\ result = "Ok" /\ width # height /\ Len(rooms) >= 2

\* C4: with should_place_doors false a returned grid has no Door cell.
C4_NoDoors ==
    (Returned /\ result = "Ok" /\ ~dungeon_config.should_place_doors) =>
        CellsOf(map, {"Door"}) = {}

\* A grid returned without doors in which the door pass would have placed one.
C4_Witness ==
    /\ Returned /\ result = "Ok" /\ ~dungeon_config.should_place_doors
    /\ CellsOf(PlaceDoors(map), {"Door"}) # {}

\* C5: RoomPlacement never accepts a room overlapping an accepted one, and
\* during placement the Floor cells are exactly the cells of the accepted rooms.
C5_NoOverlap ==
    (IsRp /\ pc \in {"rp_place", "rp_kruskal", "rp_extra", "done"}) =>
        /\ \A i, j \in DOMAIN rooms :
              i # j =>
                 \/ rooms[i].x + rooms[i].width <= rooms[j].x
                 \/ rooms[j].x + rooms[j].width <= rooms[i].x
                 \/ rooms[i].y + rooms[i].height <= rooms[j].y
                 \/ rooms[j].y + rooms[j].height <= rooms[i].y
        /\ pc = "rp_place" => CellsOf(map, {"Floor"}) = AllRoomCells

\* Two rooms accepted, one of them more than one cell, and a candidate skipped.
C5_Witness ==
    /\ IsRp /\ pc = "rp_place"
    /\ Len(rooms) >= 2
    /\ attempt > Len(rooms)
    /\ \E k \in DOMAIN rooms : rooms[k].width * rooms[k].height >= 2

\* C6: the children of every split node are disjoint and cover the parent
\* exactly, and every leaf's room lies inside the leaf's rectangle.
C6_Partition ==
    \A n \in DOMAIN tree :
        /\ tree[n].left # 0 =>
              LET l == RectCells(tree[tree[n].left].root_room)
                  r == RectCells(tree[tree[n].right].root_room)
              IN /\ l \cap r = {}
                 /\ l \cup r = RectCells(tree[n].root_room)
        /\ tree[n].room # <<>> =>
              RectCells(tree[n].room[1]) \subseteq RectCells(tree[n].root_room)

\* A tree with a horizontal and a vertical split and a room strictly smaller
\* than its leaf.
C6_Witness ==
    /\ \E n, k \in DOMAIN tree :
          /\ tree[n].left # 0 /\ tree[k].left # 0
          /\ tree[tree[n].left].root_room.width < tree[n].root_room.width
          /\ tree[tree[k].left].root_room.height < tree[k].root_room.height
    /\ \E n \in DOMAIN tree :
          /\ tree[n].room # <<>>
          /\ tree[n].room[1].x > tree[n].root_room.x
          /\ tree[n].room[1].y > tree[n].root_room.y

\* C7: a validated BinaryPartition build returns a grid whenever width and
\* height both exceed min_room_size, and NoRoomsCreated whenever one equals it.
C7_OutcomeKind ==
    (IsBsp /\ Validated /\ Returned) =>
        /\ (width > room_min_size /\ height > room_min_size) => result = "Ok"
        /\ (width = room_min_size \/ height = room_min_size) => result = "NoRoomsCreated"

\* A BinaryPartition build on a strip (one side equal to min_room_size, the
\* other large enough to be split) returned NoRoomsCreated.
C7_Witness ==
    /\ IsBsp /\ Validated /\ Returned
    /\ result = "NoRoomsCreated"
    /\ width = room_min_size
    /\ height > 2 * room_min_size

\* C8: a validated RoomPlacement build returns a grid or NoRoomsCreated and
\* never aborts.
C8_NoAbort ==
    (IsRp /\ Validated /\ Returned) => result \in {"Ok", "NoRoomsCreated"}

C10_ExtraCount ==
    (IsRp /\ Returned /\ result = "Ok") =>
        added = Min(extra_corridors, Len(edges) - Len(corridors))

\* C11: BinaryPartition called directly with width or height below
\* min_room_size (both at least 1) returns NoRoomsCreated.
C11_DirectNoRooms ==
    (IsBsp /\ Returned /\ (width < room_min_size \/ height < room_min_size))
        => result = "NoRoomsCreated"

\* C12: a node that partition_tree can split is split along y only when
\* height > width, along x only when width > height, and a square node has
\* both a horizontal and a vertical split among its outcomes.
C12_Orientation ==
    (IsBsp /\ pc = "bsp_partition" /\ stack # <<>>) =>
        LET r == tree[Head(stack)].root_room
            outs == {o \in SplitOutcomes(r, room_min_size, TRUE) : o.kind = "split"}
            horizontal == {o \in outs : o.made[2].y > r.y}
            vertical == {o \in outs : o.made[2].x > r.x}
        IN outs # {} =>
             /\ r.height > r.width => vertical = {}
             /\ r.width > r.height => horizontal = {}
             /\ r.width = r.height => (horizontal # {} /\ vertical # {})

\* C13: in the placement loop a candidate of drawn size w x h is skipped by
\* the fit check exactly when w > width - 2 or h > height - 2; otherwise it
\* goes on to the position draw (stated before any room is accepted, when
\* the overlap test cannot skip).
C13_FitCheck ==
    (IsRp /\ pc = "rp_place" /\ rooms = <<>> /\ width >= 2 /\ height >= 2) =>
        \A w \in room_min_size..room_max_size, h \in room_min_size..room_max_size :
            (PlacementOutcomes(w, h, TRUE) = {Outcome("skip", <<>>, FALSE)})
                <=> (w > width - 2 \/ h > height - 2)

\* The door rule read on the grid m as a whole: (x, y) is off the outer
\* border, is Wall, and has at least two Floor cells among its neighbours.
DoorRule(m, x, y) ==
    /\ 1 <= x /\ x < width - 1
    /\ 1 <= y /\ y < height - 1
    /\ m[y][x] = "Wall"
    /\ (IF m[y - 1][x] = "Floor" THEN 1 ELSE 0)
         + (IF m[y + 1][x] = "Floor" THEN 1 ELSE 0)
         + (IF m[y][x - 1] = "Floor" THEN 1 ELSE 0)
         + (IF m[y][x + 1] = "Floor" THEN 1 ELSE 0) >= 2

\* C14: the door pass of either strategy turns into Door exactly the cells
\* that satisfy the door rule on the grid as it was before the pass, and
\* leaves every other cell as it was.
C14_DoorPass ==
    [][(pc # "done" /\ pc' = "done" /\ result' = "Ok"
            /\ dungeon_config.should_place_doors) =>
          /\ DOMAIN map' = DOMAIN map
          /\ \A y \in DOMAIN map :
               /\ DOMAIN map'[y] = DOMAIN map[y]
               /\ \A x \in DOMAIN map[y] :
                    map'[y][x] = IF DoorRule(map, x, y) THEN "Door" ELSE map[y][x]]_vars

\* A returned grid with doors, two of them side by side: the second was
\* examined after the first had been rewritten.
C14_Witness ==
    /\ Returned
    /\ result = "Ok"
    /\ dungeon_config.should_place_doors
    /\ \E y \in DOMAIN map : \E x \in DOMAIN map[y] :
         /\ map[y][x] = "Door"
         /\ \/ (x + 1 \in DOMAIN map[y] /\ map[y][x + 1] = "Door")
            \/ (y + 1 \in DOMAIN map /\ map[y + 1][x] = "Door")

\* The room pairs joined by the Kruskal loop, as an undirected graph.
CorridorEdges == {{corridors[k][1], corridors[k][2]} : k \in DOMAIN corridors}

\* The rooms reachable from the rooms in seen along the edges es.
RECURSIVE Linked(_, _)
Linked(seen, es) ==
    LET next == seen \cup {v \in 1..Len(rooms) : \E e \in es : v \in e /\ e \cap seen # {}}
    IN IF next = seen THEN seen ELSE Linked(next, es)

Components(es) == {Linked({v}, es) : v \in 1..Len(rooms)}

\* es is a spanning tree of the complete graph over the rooms.
Spanning(es) ==
    /\ Cardinality(es) = Len(rooms) - 1
    /\ Cardinality(Components(es)) = 1

AllPairs == {{i, j} : i \in 1..Len(rooms), j \in 1..Len(rooms)} \ {{i} : i \in 1..Len(rooms)}

\* The centre-to-centre distance of the two rooms of e in hundredths, rounded
\* down.
CentreDistance(e) ==
    LET a == CHOOSE v \in e : TRUE
        b == CHOOSE v \in e : v # a
        dx == rooms[a].center_x - rooms[b].center_x
        dy == rooms[a].center_y - rooms[b].center_y
        sq == dx * dx + dy * dy
    IN CHOOSE r \in 0..(100 * sq) : r * r <= 10000 * sq /\ 10000 * sq < (r + 1) * (r + 1)

RECURSIVE TotalDistance(_)
TotalDistance(es) ==
    IF es = {} THEN 0
    ELSE LET e == CHOOSE x \in es : TRUE IN CentreDistance(e) + TotalDistance(es \ {e})

KruskalOver ==
    pc \in {"rp_extra", "done"} \/ (pc = "rp_kruskal" /\ edge_idx > Len(edges))

====
